---- MODULE Spec2Model ----
(***************************************************************************)
(* State-machine model of src/vault.js: the Vault constructor's promise    *)
(* chain (profile fetch, PBKDF2, key hierarchy, item overviews, item       *)
(* details), Vault.search, and the two helpers decryptKeyData and          *)
(* createKeyPair.                                                          *)
(*                                                                         *)
(* Buffers are sequences of bytes (0..255) with the real field widths of   *)
(* the envelope.  The primitives of node's crypto module (HMAC-SHA256,     *)
(* AES-256-CBC, SHA-512, PBKDF2) are outside the repository; they are      *)
(* replaced by small keyed byte functions with the same lengths, the same  *)
(* argument checks and the same error behaviour.                           *)
(***************************************************************************)
EXTENDS Integers, Sequences, FiniteSets, TLC

\* ----------------------------------------------------------------- bounds
MaxItems == 2
MaxDetails == 2
MaxSearches == 2
MaxPlain == 3

\* ------------------------------------------------------ program constants
TagLen == 32
IvLen == 16
HeaderLen == 16
KeyLen == 32
DerivedLen == 64
BlockLen == 16
LimbBase == 65536
ByteBase == 256

\* "opdata01" in ASCII
Magic == <<111, 112, 100, 97, 116, 97, 48, 49>>

\* ------------------------------------------------------------ byte helpers
Min(a, b) == IF a < b THEN a ELSE b
Max(a, b) == IF a > b THEN a ELSE b

\* Buffer.prototype.slice(start, end): negative offsets count from the end,
\* both offsets are clamped to [0, length], an inverted range is empty.
AdjustOffset(off, len) ==
  IF off < 0 THEN Max(off + len, 0) ELSE Min(off, len)

BufSlice(buf, start, end) ==
  LET s == AdjustOffset(start, Len(buf))
      e == AdjustOffset(end, Len(buf))
  IN IF e <= s THEN << >> ELSE SubSeq(buf, s + 1, e)

\* slice(start) with the end left out
BufSliceFrom(buf, start) == BufSlice(buf, start, Len(buf))

\* Position-weighted byte sum modulo 256 over buf[lo..hi], by halving.
RECURSIVE SumRange(_, _, _)
SumRange(buf, lo, hi) ==
  IF lo > hi THEN 0
  ELSE IF lo = hi THEN (((lo % 13) + 1) * buf[lo]) % ByteBase
  ELSE LET mid == (lo + hi) \div 2
       IN (SumRange(buf, lo, mid) + SumRange(buf, mid + 1, hi)) % ByteBase

WeightedSum(buf) == SumRange(buf, 1, Len(buf))

KeyByte(key, i) == IF Len(key) = 0 THEN 0 ELSE key[((i - 1) % Len(key)) + 1]

\* readUInt32LE(offset) as two 16-bit limbs <<low, high>>; the caller has
\* checked that offset + 4 <= length.
ReadUInt32LE(buf, off) ==
  << buf[off + 1] + ByteBase * buf[off + 2],
     buf[off + 3] + ByteBase * buf[off + 4] >>

\* ------------------------------------------------ crypto module stand-ins
\* crypto.createHmac('sha256', key).update(data).digest(): 32 bytes.
HmacSha256(key, data) ==
  LET s == WeightedSum(data)
  IN [i \in 1..TagLen |-> (s + 3 * KeyByte(key, i) + i + Len(data)) % ByteBase]

\* crypto.createHash('sha512').update(data).digest(): 64 bytes.
Sha512(data) ==
  LET s == WeightedSum(data)
  IN [i \in 1..DerivedLen |-> (5 * s + 7 * i + Len(data) + 17) % ByteBase]

\* crypto.pbkdf2(password, salt, iterations, 64, 'sha512'): 64 bytes.
Pbkdf2(password, salt, iterations) ==
  LET s == WeightedSum(password \o salt)
  IN [i \in 1..DerivedLen |-> (11 * s + iterations + 3 * i) % ByteBase]

\* aes-256-cbc without automatic padding: length preserving, keyed by the
\* encryption key and the IV.
AesDecrypt(key, iv, ct) ==
  [i \in 1..Len(ct) |->
     (ct[i] + 2 * ByteBase - KeyByte(key, i) - KeyByte(iv, i)) % ByteBase]

AesEncrypt(key, iv, pt) ==
  [i \in 1..Len(pt) |-> (pt[i] + KeyByte(key, i) + KeyByte(iv, i)) % ByteBase]

\* -------------------------------------------------------- decryptKeyData
\* Numbers wider than 31 bits are kept as four 16-bit limbs, least
\* significant first.
\* (data.readUInt32LE(12) << 8): the operand is taken modulo 2^32, shifted
\* left by 8 within 32 bits and read as a signed 32-bit integer.  The
\* result is <<low limb, signed high limb>>.
ShiftLeft8(word) ==
  LET lowLimb == (word[1] % ByteBase) * ByteBase
      highRaw == (word[1] \div ByteBase) + ByteBase * (word[2] % ByteBase)
  IN << lowLimb, IF highRaw >= LimbBase \div 2 THEN highRaw - LimbBase ELSE highRaw >>

\* Math.abs((hi << 8) + lo) as limbs.
DeclaredLength(data) ==
  LET hi == ReadUInt32LE(data, 12)
      lo == ReadUInt32LE(data, 8)
      sh == ShiftLeft8(hi)
      s0raw == sh[1] + lo[1]
      s0 == s0raw % LimbBase
      s1 == sh[2] + lo[2] + (s0raw \div LimbBase)
  IN IF s1 >= 0
       THEN << s0, s1 % LimbBase, s1 \div LimbBase, 0 >>
       ELSE IF s0 = 0
              THEN << 0, -s1, 0, 0 >>
              ELSE << LimbBase - s0, -s1 - 1, 0, 0 >>

\* plaintext.slice(-Math.abs(length)): -0 is 0, so a length of zero keeps
\* the whole buffer; a length beyond the buffer also keeps all of it.
StripPadding(plaintext, n) ==
  IF n[2] = 0 /\ n[3] = 0 /\ n[4] = 0 /\ n[1] < Len(plaintext)
    THEN BufSlice(plaintext, -n[1], Len(plaintext))
    ELSE plaintext

Threw(name) ==
  [kind |-> "throw", msg |-> name, value |-> << >>, hmacRun |-> FALSE, decipherRun |-> FALSE]

\* Variant: the magic is never compared.
ChecksumNeverFails(data, isOpdata01) == FALSE

\* Variant: the tag is never compared.
MacNeverFails(keypair, data) == FALSE

\* if (isOpdata01) { if (check !== 'opdata01') ... }
ChecksumFails(data, isOpdata01) ==
  isOpdata01 /\ BufSlice(data, 0, 8) # Magic

\* digest !== hmacCheck.toString('hex')
MacFails(keypair, data) ==
  HmacSha256(keypair[2], BufSlice(data, 0, -TagLen)) # BufSliceFrom(data, -TagLen)

\* decryptKeyData(keypair, data, isOpdata01, callback).  The result says
\* how the call ends: "ok" callback(null, plaintext), "err" callback(error),
\* "throw" an exception leaves the function and the callback is not called.
\* hmacRun / decipherRun record whether the HMAC and the decipher ran.
decryptKeyData(keypair, data, isOpdata01) ==
  LET offset == IF isOpdata01 THEN HeaderLen ELSE 0
      iv == BufSlice(data, offset, offset + IvLen)
      ciphertext == BufSlice(data, offset + IvLen, -TagLen)
  IN IF Len(data) < HeaderLen
       THEN Threw("RangeError")
     ELSE IF ChecksumFails(data, isOpdata01)
       THEN [kind |-> "err", msg |-> "Invalid OPData1 Checksum", value |-> << >>,
             hmacRun |-> FALSE, decipherRun |-> FALSE]
     ELSE IF MacFails(keypair, data)
       THEN [kind |-> "err", msg |-> "Invalid password", value |-> << >>,
             hmacRun |-> TRUE, decipherRun |-> FALSE]
     ELSE IF Len(keypair[1]) # KeyLen \/ Len(iv) # IvLen
       THEN [Threw("Invalid key or IV length") EXCEPT !.hmacRun = TRUE]
     ELSE IF Len(ciphertext) % BlockLen # 0
       THEN [Threw("wrong final block length") EXCEPT !.hmacRun = TRUE,
                                                      !.decipherRun = TRUE]
     ELSE [kind |-> "ok", msg |-> "",
           value |-> StripPadding(AesDecrypt(keypair[1], iv, ciphertext),
                                  DeclaredLength(data)),
           hmacRun |-> TRUE, decipherRun |-> TRUE]

\* createKeyPair(data, digest)
createKeyPair(data, digest) ==
  LET d == IF digest THEN Sha512(data) ELSE data
  IN << BufSlice(d, 0, KeyLen), BufSliceFrom(d, KeyLen) >>

\* JSON.parse(buffer.toString('utf8')) of the external JSON collaborator:
\* a document is the byte '{', a body, the byte '}'; anything else is a
\* SyntaxError.  The body stands for the decoded object (its title / fields).
JsonValid(buf) == Len(buf) >= 2 /\ buf[1] = 123 /\ buf[Len(buf)] = 125
JsonParse(buf) == SubSeq(buf, 2, Len(buf) - 1)
JsonText(body) == <<123>> \o body \o <<125>>

\* ------------------------------------------------- envelopes of the vault
\* The writer of the vault (the inverse of decryptKeyData), used to draw the
\* rows the database hands to the constructor.
FlipBit(buf, i) ==
  [j \in 1..Len(buf) |->
     IF j = i THEN (IF buf[j] % 2 = 0 THEN buf[j] + 1 ELSE buf[j] - 1) ELSE buf[j]]

\* 8 bytes little-endian: a length below 2^16 in the low word, and the four
\* bytes of the high word.
LenBytes(n, hiWord) == << n % ByteBase, n \div ByteBase, 0, 0 >> \o hiWord

NoHigh == << 0, 0, 0, 0 >>

PadBytes(n) == [i \in 1..n |-> (200 + i) % ByteBase]

\* Padding of opdata01: 1..16 bytes in front of the plaintext, up to a
\* whole number of blocks.
OpdataPad(n) == BlockLen - (n % BlockLen)

MakeEnvelope(keypair, plain, padLen, hasHeader, field, ivSeed) ==
  LET iv == IF hasHeader
              THEN [i \in 1..IvLen |-> (ivSeed + i) % ByteBase]
              ELSE [i \in 1..8 |-> (ivSeed + i) % ByteBase] \o field
      head == IF hasHeader THEN Magic \o field \o iv ELSE iv
      body == head \o AesEncrypt(keypair[1], iv, PadBytes(padLen) \o plain)
  IN body \o HmacSha256(keypair[2], body)

\* The tag recomputed over whatever now precedes it.
ReMac(env, keypair) ==
  LET body == BufSlice(env, 0, -TagLen)
  IN body \o HmacSha256(keypair[2], body)

\* Damage done to a stored envelope.  "magic": first byte changed and the
\* tag recomputed (valid MAC); "magic+tag": first byte changed under the
\* old tag; "tag": last bit of the tag flipped.
Tamper(env, how, keypair) ==
  CASE how = "none" -> env
    [] how = "magic" -> ReMac(FlipBit(env, 1), keypair)
    [] how = "tag" -> FlipBit(env, Len(env))
    [] how = "magic+tag" -> FlipBit(env, 1)
    [] how = "truncated" -> SubSeq(env, 1, HeaderLen - 1)
    [] how = "empty" -> << >>

\* ------------------------------------------------------------------ state
VARIABLES
  masterPassword,        \* constructor argument
  pc,                    \* position of the constructor's promise chain
  profileData,           \* row of the profiles table (hoisted variable)
  masterPasswordKeyPair, \* hoisted key pairs; << >> while unset
  masterDataKeyPair,
  overviewDataKeyPair,
  chained,               \* value handed from one then-callback to the next
  items,                 \* rows delivered by the items query
  keys,                  \* the keys array built from the items
  itemDetails,           \* rows delivered by the item_details query
  details,               \* this.details
  joined,                \* outcome of Promise.all(itemDetailsPromises)
  dbPromise,             \* this.dbPromise: state and rejection reason
  calls,                 \* promises returned by search(), in call order
  trace,                 \* history: the steps of the chain that have run
  unhandled,             \* rejected promises nobody holds (Promise.reject(err))
  db,                    \* the sqlite3.Database handle of line 20
  codecIn,               \* envelope codec on its own: the call
  codecOut               \*   and its outcome

pipeVars == << masterPassword, pc, profileData, masterPasswordKeyPair,
               masterDataKeyPair, overviewDataKeyPair, chained, items, keys,
               itemDetails, details, joined, dbPromise, calls, trace, unhandled, db >>
codecVars == << codecIn, codecOut >>
vars == << pipeVars, codecVars >>

NoResult ==
  [kind |-> "none", msg |-> "", value |-> << >>, hmacRun |-> FALSE, decipherRun |-> FALSE]

\* The pipeline's part of the state right after `new Vault(masterPassword)`:
\* the constructor has issued db.get and returned.  The profile name only
\* selects the row db.get looks for and is not part of the state.  The
\* database handle was opened read-only; the source has no db.close().
PipeInit(password, at) ==
  /\ masterPassword = password
  /\ pc = at
  /\ profileData = [present |-> FALSE, id |-> 0, iterations |-> 0, salt |-> << >>,
                    master_key_data |-> << >>, overview_key_data |-> << >>]
  /\ masterPasswordKeyPair = << >>
  /\ masterDataKeyPair = << >>
  /\ overviewDataKeyPair = << >>
  /\ chained = << >>
  /\ items = << >>
  /\ keys = << >>
  /\ itemDetails = << >>
  /\ details = << >>
  /\ joined = ""
  /\ dbPromise = [state |-> "pending", reason |-> ""]
  /\ calls = << >>
  /\ trace = IF at = "off" THEN << >> ELSE << at >>
  /\ unhandled = 0
  /\ db = IF at = "off" THEN "none" ELSE "open"

\* ------------------------------------------ the envelope codec on its own
CodecKeyA == createKeyPair(<<1>>, TRUE)
CodecKeyB == createKeyPair(<<2>>, TRUE)

Plain(n) == [i \in 1..n |-> 64 + i]
PlainLens == (0..MaxPlain) \cup {BlockLen, BlockLen + 1}
HiWords == {NoHigh, <<1, 0, 0, 0>>, <<0, 0, 128, 0>>, <<0, 0, 0, 1>>}
Tampers == {"none", "magic", "tag", "magic+tag", "truncated", "empty"}

InitCodec ==
  /\ PipeInit(<< >>, "off")
  /\ \E hasHeader \in BOOLEAN, n \in PlainLens, padded \in BOOLEAN,
        opener \in {CodecKeyA, CodecKeyB}, how \in Tampers, hi \in HiWords :
       LET padLen == IF padded THEN OpdataPad(n) ELSE 0
       IN codecIn = [keypair |-> opener,
                     data |-> Tamper(MakeEnvelope(CodecKeyA, Plain(n), padLen, hasHeader,
                                                  LenBytes(n, hi), 7),
                                    how, CodecKeyA),
                     isOpdata01 |-> hasHeader,
                     plain |-> Plain(n),
                     padLen |-> padLen,
                     tamper |-> how,
                     rightKey |-> (opener = CodecKeyA),
                     hiWord |-> hi]
  /\ codecOut = NoResult

CodecOpen ==
  /\ codecOut.kind = "none"
  /\ codecOut' = decryptKeyData(codecIn.keypair, codecIn.data, codecIn.isOpdata01)
  /\ UNCHANGED << pipeVars, codecIn >>

NextCodec == CodecOpen

SpecCodec == InitCodec /\ [][NextCodec]_vars

\* ------------------------------------------------------ the stored vault
GoodPassword == <<104, 117, 110, 116, 101, 114, 50>>
BadPassword == <<104, 117, 110, 116, 101, 114, 51>>
Salt == [i \in 1..16 |-> 0]
Iterations == 2

\* The key pair the vault's writer derived from the right password, and the
\* two key pairs wrapped under it.
TopPair == createKeyPair(Pbkdf2(GoodPassword, Salt, Iterations), FALSE)
MasterKeyRaw == [i \in 1..BlockLen |-> 10 + i]
OverviewKeyRaw == [i \in 1..BlockLen |-> 40 + i]
TrueMasterPair == createKeyPair(MasterKeyRaw, TRUE)
TrueOverviewPair == createKeyPair(OverviewKeyRaw, TRUE)

NoRow ==
  [present |-> FALSE, id |-> 0, iterations |-> 0, salt |-> << >>,
   master_key_data |-> << >>, overview_key_data |-> << >>]

ProfileRow(masterHow, overviewHow) ==
  [present |-> TRUE, id |-> 1, iterations |-> Iterations, salt |-> Salt,
   master_key_data |->
     Tamper(MakeEnvelope(TopPair, MasterKeyRaw, OpdataPad(BlockLen), TRUE,
                         LenBytes(BlockLen, NoHigh), 1), masterHow, TopPair),
   overview_key_data |->
     Tamper(MakeEnvelope(TopPair, OverviewKeyRaw, OpdataPad(BlockLen), TRUE,
                         LenBytes(BlockLen, NoHigh), 2), overviewHow, TopPair)]

ProfileRows ==
  {ProfileRow(m, o) : m \in {"none", "magic"}, o \in {"none", "tag"}}

TitleA == <<65>>
TitleLower == <<97>>
SearchTitles == {TitleA}

ItemKinds == {"own", "fallback", "badOverview", "emptyKey", "shortKey"}

ItemKeyMaterial(id, n) == [i \in 1..n |-> (37 * id + i) % ByteBase]

\* A row of the items table.  "own": title "A" and a 64-byte item key;
\* "fallback": title "a" and key data that decrypts to nothing; "badOverview":
\* the overview's tag is damaged; "emptyKey": key_data is a zero-length
\* blob; "shortKey": title "A" and 48 bytes of key material.
ItemRow(id, kind) ==
  LET title == IF kind = "fallback" THEN TitleLower ELSE TitleA
      text == JsonText(title)
      overview == MakeEnvelope(TrueOverviewPair, text, OpdataPad(Len(text)), FALSE,
                               LenBytes(Len(text), NoHigh), 20 + id)
      material == CASE kind = "fallback" -> << >>
                    [] kind = "shortKey" -> ItemKeyMaterial(id, 48)
                    [] OTHER -> ItemKeyMaterial(id, DerivedLen)
      keyData == MakeEnvelope(TrueMasterPair, material, 0, FALSE,
                              LenBytes(Len(material), NoHigh), 30 + id)
  IN [id |-> id,
      key_data |-> IF kind = "emptyKey" THEN << >> ELSE keyData,
      overview_data |-> IF kind = "badOverview"
                          THEN Tamper(overview, "tag", TrueOverviewPair)
                          ELSE overview]

ItemRowSets ==
  UNION {{[i \in 1..n |-> ItemRow(i, kinds[i])] : kinds \in [1..n -> ItemKinds]} :
         n \in 0..MaxItems}

DetailKinds == {"ok", "tag", "nonBlock"}

\* A row of the item_details table, written under the key pair `pair`.
\* "ok": a well-formed opdata01 envelope; "tag": its tag damaged;
\* "nonBlock": a valid tag over a ciphertext that is no whole number of
\* blocks.
DetailRow(id, kind, pair) ==
  LET text == JsonText(<<id>>)
      padLen == IF kind = "nonBlock" THEN 0 ELSE OpdataPad(Len(text))
      env == MakeEnvelope(pair, text, padLen, TRUE, LenBytes(Len(text), NoHigh), 50 + id)
  IN [item_id |-> id,
      data |-> IF kind = "tag" THEN Tamper(env, "tag", pair) ELSE env]

RECURSIVE SeqOfSet(_)
SeqOfSet(S) ==
  IF S = {} THEN << >>
  ELSE LET m == CHOOSE x \in S : \A y \in S : x <= y
       IN <<m>> \o SeqOfSet(S \ {m})

\* Variant: a row that matches no entry is given the first entry.
FindOrFirst(ks, id) ==
  LET hits == {i \in 1..Len(ks) : ks[i].id = id}
  IN IF hits = {} THEN (IF Len(ks) > 0 THEN 1 ELSE 0)
     ELSE CHOOSE i \in hits : \A j \in hits : i <= j

\* keys.find(key => key.id === id)
Find(ks, id) ==
  LET hits == {i \in 1..Len(ks) : ks[i].id = id}
  IN IF hits = {} THEN 0 ELSE CHOOSE i \in hits : \A j \in hits : i <= j

\* The key pair an item's detail was written under: the one the reader
\* holds for the item, or an unrelated one when the item is not indexed.
WriterPair(ks, id) ==
  IF Find(ks, id) = 0 THEN CodecKeyA ELSE ks[Find(ks, id)].itemDataKeyPair

\* At most one detail row per item id, rows in id order.  The rows name
\* indexed items or the id after the last item's, which stands for every
\* item the index does not hold (not returned by the items query, or left
\* out of keys): keys.find fails for all of them alike.
DetailRowSets(ks, nItems) ==
  LET known == {ks[i].id : i \in 1..Len(ks)} \cup {nItems + 1}
  IN UNION {{LET order == SeqOfSet(ids)
             IN [i \in 1..Len(order) |->
                   DetailRow(order[i], kinds[order[i]], WriterPair(ks, order[i]))] :
             kinds \in [ids -> DetailKinds]} :
            ids \in {S \in SUBSET known : Cardinality(S) <= MaxDetails}}

\* ------------------------------------------------- the constructor's chain
\* Variant: the chain replaces every reason by an empty rejection.
RejectTranslated(reason) ==
  /\ dbPromise' = [state |-> "rejected", reason |-> "undefined"]
  /\ pc' = "settled"

\* A rejection travels down the chain untouched (no later step has a
\* rejection handler): this.dbPromise is rejected with the same reason.
Reject(reason) ==
  /\ dbPromise' = [state |-> "rejected", reason |-> reason]
  /\ pc' = "settled"

Ran(step) == trace' = Append(trace, step)

\* db.get callback (lines 33-41)
DbGetCallback ==
  /\ pc = "getProfile"
  /\ \/ /\ Reject("SQLITE_ERROR")
        /\ UNCHANGED profileData
     \/ /\ \E row \in ProfileRows \cup {NoRow} : profileData' = row
        /\ pc' = "derive"
        /\ UNCHANGED dbPromise
  /\ UNCHANGED << masterPassword, masterPasswordKeyPair, masterDataKeyPair,
                  overviewDataKeyPair, chained, items, keys, itemDetails, details,
                  joined, calls, trace, unhandled, db, codecVars >>

\* Variant: a missing row is read as a row of empty fields.
StartPbkdf2Lenient ==
  /\ pc = "derive"
  /\ pc' = "pbkdf2" /\ Ran("pbkdf2") /\ UNCHANGED dbPromise
  /\ UNCHANGED << masterPassword, profileData, masterPasswordKeyPair, masterDataKeyPair,
                  overviewDataKeyPair, chained, items, keys, itemDetails, details,
                  joined, calls, unhandled, db, codecVars >>

\* then-callback of lines 42-57 up to the call of crypto.pbkdf2; reading
\* profileData.salt of an undefined row is a TypeError.
StartPbkdf2 ==
  /\ pc = "derive"
  /\ IF profileData.present
       THEN pc' = "pbkdf2" /\ Ran("pbkdf2") /\ UNCHANGED dbPromise
       ELSE Reject("TypeError") /\ UNCHANGED trace
  /\ UNCHANGED << masterPassword, profileData, masterPasswordKeyPair, masterDataKeyPair,
                  overviewDataKeyPair, chained, items, keys, itemDetails, details,
                  joined, calls, unhandled, db, codecVars >>

\* crypto.pbkdf2 callback (lines 47-56)
Pbkdf2Callback ==
  /\ pc = "pbkdf2"
  /\ \/ /\ Reject("pbkdf2 error")
        /\ UNCHANGED masterPasswordKeyPair
     \/ /\ LET key == Pbkdf2(masterPassword, profileData.salt, profileData.iterations)
           IN masterPasswordKeyPair' = << BufSlice(key, 0, KeyLen), BufSliceFrom(key, KeyLen) >>
        /\ pc' = "openMaster"
        /\ UNCHANGED dbPromise
  /\ UNCHANGED << masterPassword, profileData, masterDataKeyPair,
                  overviewDataKeyPair, chained, items, keys, itemDetails, details,
                  joined, calls, trace, unhandled, db, codecVars >>

\* The two then-callbacks that open a wrapped key (lines 58-69, 75-85):
\* resolve with the plaintext, reject with the callback's error; an
\* exception inside the executor rejects as well.
OpenKeyData(at, data, next) ==
  /\ pc = at
  /\ Ran(at)
  /\ LET r == decryptKeyData(masterPasswordKeyPair, data, TRUE)
     IN IF r.kind = "ok"
          THEN chained' = r.value /\ pc' = next /\ UNCHANGED dbPromise
          ELSE Reject(r.msg) /\ UNCHANGED chained
  /\ UNCHANGED << masterPassword, profileData, masterPasswordKeyPair, masterDataKeyPair,
                  overviewDataKeyPair, items, keys, itemDetails, details,
                  joined, calls, unhandled, db, codecVars >>

OpenMasterKey == OpenKeyData("openMaster", profileData.master_key_data, "makeMaster")

\* lines 70-75
MakeMasterPair ==
  /\ pc = "makeMaster"
  /\ Ran("makeMaster")
  /\ masterDataKeyPair' = createKeyPair(chained, TRUE)
  /\ chained' = << >>
  /\ pc' = "openOverview"
  /\ UNCHANGED << masterPassword, profileData, masterPasswordKeyPair,
                  overviewDataKeyPair, items, keys, itemDetails, details,
                  joined, dbPromise, calls, unhandled, db, codecVars >>

OpenOverviewKey == OpenKeyData("openOverview", profileData.overview_key_data, "makeOverview")

\* lines 86-91
MakeOverviewPair ==
  /\ pc = "makeOverview"
  /\ Ran("makeOverview")
  /\ overviewDataKeyPair' = createKeyPair(chained, TRUE)
  /\ chained' = << >>
  /\ pc' = "queryItems"
  /\ UNCHANGED << masterPassword, profileData, masterPasswordKeyPair,
                  masterDataKeyPair, items, keys, itemDetails, details,
                  joined, dbPromise, calls, unhandled, db, codecVars >>

\* then-callbacks that issue a db.all query (lines 91-94, 141-144)
Query(at, next) ==
  /\ pc = at
  /\ Ran(at)
  /\ pc' = next
  /\ UNCHANGED << masterPassword, profileData, masterPasswordKeyPair, masterDataKeyPair,
                  overviewDataKeyPair, chained, items, keys, itemDetails, details,
                  joined, dbPromise, calls, unhandled, db, codecVars >>

QueryItems == Query("queryItems", "itemsQuery")

\* db.all callback of the items query (lines 94-100)
ItemsCallback ==
  /\ pc = "itemsQuery"
  /\ \/ /\ Reject("SQLITE_ERROR")
        /\ UNCHANGED items
     \/ /\ \E rows \in ItemRowSets : items' = rows
        /\ pc' = "decryptItems"
        /\ UNCHANGED dbPromise
  /\ UNCHANGED << masterPassword, profileData, masterPasswordKeyPair, masterDataKeyPair,
                  overviewDataKeyPair, chained, keys, itemDetails, details,
                  joined, calls, trace, unhandled, db, codecVars >>

\* The for loop of lines 106-138 from item i on.  decryptKeyData calls its
\* callback before it returns, so the loop is one synchronous pass.  acc is
\* [keys, dropped, thrown]: an error handed to a callback only builds a
\* rejected promise that nobody holds (`return Promise.reject(err)`) and the
\* item is left out; an exception ends the loop and the then-callback.
RECURSIVE ItemsLoop(_, _, _, _, _)
ItemsLoop(rows, i, overviewPair, masterPair, acc) ==
  IF i > Len(rows) \/ acc.thrown # "" THEN acc
  ELSE
    LET item == rows[i]
        ov == decryptKeyData(overviewPair, item.overview_data, FALSE)
        kd == decryptKeyData(masterPair, item.key_data, FALSE)
        itemDataKeyPair == IF Len(kd.value) = 0 THEN overviewPair
                           ELSE createKeyPair(kd.value, FALSE)
        step ==
          IF ov.kind = "throw" THEN [acc EXCEPT !.thrown = ov.msg]
          ELSE IF ov.kind = "err" THEN [acc EXCEPT !.dropped = @ + 1]
          ELSE IF kd.kind = "throw" THEN [acc EXCEPT !.thrown = kd.msg]
          ELSE IF kd.kind = "err" THEN [acc EXCEPT !.dropped = @ + 1]
          ELSE IF ~JsonValid(ov.value) THEN [acc EXCEPT !.thrown = "SyntaxError"]
          ELSE [acc EXCEPT !.keys =
                  Append(@, [overviewDataRaw |-> ov.value,
                             overviewData |-> [title |-> JsonParse(ov.value)],
                             itemDataKeyPair |-> itemDataKeyPair,
                             id |-> item.id])]
    IN ItemsLoop(rows, i + 1, overviewPair, masterPair, step)

\* then-callback of lines 102-141
DecryptItems ==
  /\ pc = "decryptItems"
  /\ Ran("decryptItems")
  /\ LET out == ItemsLoop(items, 1, overviewDataKeyPair, masterDataKeyPair,
                          [keys |-> << >>, dropped |-> 0, thrown |-> ""])
     IN /\ unhandled' = unhandled + out.dropped
        /\ IF out.thrown = ""
             THEN keys' = out.keys /\ pc' = "queryDetails" /\ UNCHANGED dbPromise
             ELSE Reject(out.thrown) /\ UNCHANGED keys
  /\ UNCHANGED << masterPassword, profileData, masterPasswordKeyPair, masterDataKeyPair,
                  overviewDataKeyPair, chained, items, itemDetails, details,
                  joined, calls, db, codecVars >>

QueryDetails == Query("queryDetails", "detailsQuery")

\* db.all callback of the item_details query (lines 144-153)
DetailsCallback ==
  /\ pc = "detailsQuery"
  /\ \/ /\ Reject("SQLITE_ERROR")
        /\ UNCHANGED itemDetails
     \/ /\ \E rows \in DetailRowSets(keys, Len(items)) : itemDetails' = rows
        /\ pc' = "resolveDetails"
        /\ UNCHANGED dbPromise
  /\ UNCHANGED << masterPassword, profileData, masterPasswordKeyPair, masterDataKeyPair,
                  overviewDataKeyPair, chained, items, keys, details,
                  joined, calls, trace, unhandled, db, codecVars >>

\* The forEach of lines 161-186 from row i on.  acc is [details, rejected]:
\* rejected is the reason of the first promise of itemDetailsPromises that
\* was rejected (an exception inside its executor), "" when none was.
RECURSIVE DetailsLoop(_, _, _, _)
DetailsLoop(rows, i, ks, acc) ==
  IF i > Len(rows) THEN acc
  ELSE
    LET detail == rows[i]
        at == Find(ks, detail.item_id)
        itemOverview == ks[at]
        r == decryptKeyData(itemOverview.itemDataKeyPair, detail.data, TRUE)
        fail(msg) == IF acc.rejected = "" THEN [acc EXCEPT !.rejected = msg] ELSE acc
        step ==
          IF at = 0 THEN acc
          ELSE IF r.kind = "throw" THEN fail(r.msg)
          ELSE IF r.kind = "err"
            THEN [acc EXCEPT !.details =
                    Append(@, [itemOverview |-> itemOverview, itemDetailRaw |-> << >>,
                               itemDetail |-> [isNull |-> TRUE, fields |-> << >>]])]
          ELSE IF ~JsonValid(r.value) THEN fail("SyntaxError")
          ELSE [acc EXCEPT !.details =
                  Append(@, [itemOverview |-> itemOverview, itemDetailRaw |-> r.value,
                             itemDetail |-> [isNull |-> FALSE,
                                             fields |-> JsonParse(r.value)]])]
    IN DetailsLoop(rows, i + 1, ks, step)

\* then-callback of lines 155-190: every executor has run when it returns
\* Promise.all(itemDetailsPromises).
ResolveDetails ==
  /\ pc = "resolveDetails"
  /\ Ran("resolveDetails")
  /\ LET out == DetailsLoop(itemDetails, 1, keys, [details |-> details, rejected |-> ""])
     IN /\ details' = out.details
        /\ joined' = out.rejected
  /\ pc' = "join"
  /\ UNCHANGED << masterPassword, profileData, masterPasswordKeyPair, masterDataKeyPair,
                  overviewDataKeyPair, chained, items, keys, itemDetails,
                  dbPromise, calls, unhandled, db, codecVars >>

\* Variant: this.dbPromise is fulfilled when the item_details rows arrive,
\* without waiting for the promises of the detail stage.
JoinBeforeDetails ==
  /\ pc = "resolveDetails"
  /\ Ran("join")
  /\ dbPromise' = [state |-> "fulfilled", reason |-> ""]
  /\ pc' = "settled"
  /\ UNCHANGED << masterPassword, profileData, masterPasswordKeyPair, masterDataKeyPair,
                  overviewDataKeyPair, chained, items, keys, itemDetails, details,
                  joined, calls, unhandled, db, codecVars >>

\* Promise.all settles and with it this.dbPromise (line 189)
Join ==
  /\ pc = "join"
  /\ Ran("join")
  /\ IF joined = ""
       THEN dbPromise' = [state |-> "fulfilled", reason |-> ""] /\ pc' = "settled"
       ELSE Reject(joined)
  /\ UNCHANGED << masterPassword, profileData, masterPasswordKeyPair, masterDataKeyPair,
                  overviewDataKeyPair, chained, items, keys, itemDetails, details,
                  joined, calls, unhandled, db, codecVars >>

\* ---------------------------------------------------------------- search
\* The caller's code runs only while the chain waits for a callback of the
\* database or of pbkdf2, or after it has settled.
IdlePoints == {"getProfile", "pbkdf2", "itemsQuery", "detailsQuery", "settled"}

Pending(i) == calls[i].state = "pending"

\* Variant: a search on a rejected this.dbPromise starts the chain again.
SearchRetrying(title) ==
  /\ pc \in IdlePoints
  /\ Len(calls) < MaxSearches
  /\ dbPromise.state # "pending" => \A i \in 1..Len(calls) : ~Pending(i)
  /\ calls' = Append(calls, [title |-> title, state |-> "pending", value |-> << >>,
                             reason |-> "", early |-> (dbPromise.state = "pending")])
  /\ IF dbPromise.state = "rejected"
       THEN pc' = "getProfile" /\ dbPromise' = [state |-> "pending", reason |-> ""]
       ELSE UNCHANGED << pc, dbPromise >>
  /\ UNCHANGED << masterPassword, profileData, masterPasswordKeyPair,
                  masterDataKeyPair, overviewDataKeyPair, chained, items, keys,
                  itemDetails, details, joined, trace, unhandled, db, codecVars >>

\* search(title) up to `return this.dbPromise.then(...)` (lines 197-198);
\* early records that the call came before this.dbPromise settled.
Search(title) ==
  /\ pc \in IdlePoints
  /\ Len(calls) < MaxSearches
  /\ dbPromise.state # "pending" => \A i \in 1..Len(calls) : ~Pending(i)
  /\ calls' = Append(calls, [title |-> title, state |-> "pending", value |-> << >>,
                             reason |-> "", early |-> (dbPromise.state = "pending")])
  /\ UNCHANGED << masterPassword, pc, profileData, masterPasswordKeyPair,
                  masterDataKeyPair, overviewDataKeyPair, chained, items, keys,
                  itemDetails, details, joined, dbPromise, trace, unhandled, db, codecVars >>

\* Variant: titles compared without regard to letter case.
TitleMatchesAnyCase(detail, title) ==
  LET t == detail.itemOverview.overviewData.title
  IN Len(t) = Len(title) /\ \A i \in 1..Len(t) : t[i] % 32 = title[i] % 32

\* detail.itemOverview.overviewData.title === title
TitleMatches(detail, title) == detail.itemOverview.overviewData.title = title

\* this.details.filter(...)
Filter(ds, title) ==
  LET Test(d) == TitleMatches(d, title)
  IN SelectSeq(ds, Test)

\* Variant: the handler runs without waiting for this.dbPromise.
GateOpen == TRUE

\* this.dbPromise.then(handler): the handler waits for the promise
Gate == dbPromise.state # "pending"

\* Variant: a search that finds entries takes them out of this.details.
SearchThenConsuming ==
  /\ Gate
  /\ \E i \in 1..Len(calls) :
       /\ Pending(i)
       /\ \A j \in 1..(i - 1) : ~Pending(j)
       /\ LET found == Filter(details, calls[i].title)
              Rest(d) == ~TitleMatches(d, calls[i].title)
          IN /\ calls' = [calls EXCEPT ![i] =
                  IF dbPromise.state = "rejected"
                    THEN [@ EXCEPT !.state = "rejected", !.reason = dbPromise.reason]
                  ELSE IF Len(found) > 0
                    THEN [@ EXCEPT !.state = "resolved", !.value = found]
                  ELSE [@ EXCEPT !.state = "rejected", !.reason = "undefined"]]
             /\ details' = IF dbPromise.state = "rejected" THEN details
                           ELSE SelectSeq(details, Rest)
  /\ UNCHANGED << masterPassword, pc, profileData, masterPasswordKeyPair,
                  masterDataKeyPair, overviewDataKeyPair, chained, items, keys,
                  itemDetails, joined, dbPromise, trace, unhandled, db, codecVars >>

\* The handler given to this.dbPromise.then (lines 198-206), for the oldest
\* call still waiting; a rejected dbPromise rejects the call's promise with
\* the same reason and the handler does not run.
SearchThen ==
  /\ Gate
  /\ \E i \in 1..Len(calls) :
       /\ Pending(i)
       /\ \A j \in 1..(i - 1) : ~Pending(j)
       /\ LET found == Filter(details, calls[i].title)
          IN calls' = [calls EXCEPT ![i] =
               IF dbPromise.state = "rejected"
                 THEN [@ EXCEPT !.state = "rejected", !.reason = dbPromise.reason]
               ELSE IF Len(found) > 0
                 THEN [@ EXCEPT !.state = "resolved", !.value = found]
               ELSE [@ EXCEPT !.state = "rejected", !.reason = "undefined"]]
  /\ UNCHANGED << masterPassword, pc, profileData, masterPasswordKeyPair,
                  masterDataKeyPair, overviewDataKeyPair, chained, items, keys,
                  itemDetails, details, joined, dbPromise, trace, unhandled, db, codecVars >>

Init ==
  /\ \E password \in {GoodPassword, BadPassword} : PipeInit(password, "getProfile")
  /\ codecIn = [keypair |-> CodecKeyA, data |-> << >>, isOpdata01 |-> FALSE,
                plain |-> << >>, padLen |-> 0, tamper |-> "none", rightKey |-> TRUE,
                hiWord |-> NoHigh]
  /\ codecOut = NoResult

Next ==
  \/ DbGetCallback
  \/ StartPbkdf2
  \/ Pbkdf2Callback
  \/ OpenMasterKey
  \/ MakeMasterPair
  \/ OpenOverviewKey
  \/ MakeOverviewPair
  \/ QueryItems
  \/ ItemsCallback
  \/ DecryptItems
  \/ QueryDetails
  \/ DetailsCallback
  \/ ResolveDetails
  \/ Join
  \/ \E title \in SearchTitles : Search(title)
  \/ SearchThen

Spec == Init /\ [][Next]_vars

\* ================================================================= claims
InTrace(step) == \E i \in 1..Len(trace) : trace[i] = step
Resolved(i) == calls[i].state = "resolved"
Rejected(i) == calls[i].state = "rejected"
TitleOf(entry) == entry.itemOverview.overviewData.title
EntryIds == {details[k].itemOverview.id : k \in 1..Len(details)}
ItemIds == {items[k].id : k \in 1..Len(items)}

\* C1: after a successful unlock a search that has answered resolved with
\* exactly the entries of this.details whose title equals the searched one
\* (all of them, nothing else), and was rejected when there is none.
C1_SearchExact ==
  \A i \in 1..Len(calls) :
    (dbPromise.state = "fulfilled" /\ ~Pending(i)) =>
      LET t == calls[i].title
          v == calls[i].value
          hits == {k \in 1..Len(details) : TitleOf(details[k]) = t}
      IN IF hits = {}
           THEN Rejected(i) /\ v = << >>
           ELSE /\ Resolved(i)
                /\ Len(v) = Cardinality(hits)
                /\ \A k \in hits : \E j \in 1..Len(v) : v[j] = details[k]
                /\ \A j \in 1..Len(v) : TitleOf(v[j]) = t

\* A search for "A" answered with one entry while the index also holds an
\* entry titled "a".
C1_Witness ==
  \E i \in 1..Len(calls) :
    /\ Resolved(i)
    /\ Len(calls[i].value) = 1
    /\ \E k \in 1..Len(details) : TitleOf(details[k]) = TitleLower

\* C2: a search answers only once the whole chain has settled, whenever it
\* was called: a resolved call implies that every step up to the join has
\* run and this.dbPromise is fulfilled, and a rejected this.dbPromise
\* rejects every answered call with its own reason (one gate for all).
C2_SingleGate ==
  \A i \in 1..Len(calls) :
    ~Pending(i) =>
      /\ pc = "settled"
      /\ dbPromise.state # "pending"
      /\ Resolved(i) =>
           /\ dbPromise.state = "fulfilled"
           /\ InTrace("openMaster") /\ InTrace("openOverview")
           /\ InTrace("decryptItems") /\ InTrace("resolveDetails") /\ InTrace("join")
           /\ \A j \in 1..Len(calls[i].value) :
                \E k \in 1..Len(details) : details[k] = calls[i].value[j]
      /\ dbPromise.state = "rejected" =>
           Rejected(i) /\ calls[i].reason = dbPromise.reason

\* Two searches called before the chain settled, both resolved afterwards.
C2_Witness ==
  /\ Len(calls) >= 2
  /\ calls[1].early /\ calls[2].early
  /\ Resolved(1) /\ Resolved(2)

\* C3: with the wrong password and an intact master key envelope, once the
\* envelope has been opened the chain is rejected with 'Invalid password',
\* the overview key envelope is never opened and neither the master nor the
\* overview key pair exists; and whatever the password, the overview key
\* envelope is opened only after the master key pair was made.
IntactMasterKey ==
  /\ profileData.present
  /\ profileData.master_key_data = ProfileRow("none", "none").master_key_data

C3_WrongPasswordFailsFast ==
  /\ (masterPassword = BadPassword /\ IntactMasterKey /\ InTrace("openMaster")) =>
       /\ dbPromise = [state |-> "rejected", reason |-> "Invalid password"]
       /\ pc = "settled"
       /\ ~InTrace("openOverview") /\ ~InTrace("makeMaster") /\ ~InTrace("makeOverview")
       /\ masterDataKeyPair = << >>
       /\ overviewDataKeyPair = << >>
  /\ InTrace("openOverview") => (InTrace("makeMaster") /\ masterDataKeyPair # << >>)

C3_Witness ==
  masterPassword = BadPassword /\ IntactMasterKey /\ InTrace("openMaster")

\* An item of the items query whose overview or key envelope does not open
\* under the key pairs of the hierarchy, once the item stage has run.
OpensOverview(item) ==
  decryptKeyData(overviewDataKeyPair, item.overview_data, FALSE).kind = "ok"
OpensKey(item) ==
  decryptKeyData(masterDataKeyPair, item.key_data, FALSE).kind = "ok"
ItemStageFailed ==
  /\ InTrace("decryptItems")
  /\ \E k \in 1..Len(items) : ~OpensOverview(items[k]) \/ ~OpensKey(items[k])

\* C4: when a phase of unlock has failed (the chain was rejected, or an
\* item's envelope did not open in the item stage) no search ever resolves.
C4_AllOrNothing ==
  (dbPromise.state = "rejected" \/ ItemStageFailed) =>
    \A i \in 1..Len(calls) : ~Resolved(i)

\* C5: when an item's overview or key envelope does not open, this.dbPromise
\* is never fulfilled and no search resolves.
C5_ItemFailureFatal ==
  ItemStageFailed =>
    /\ dbPromise.state # "fulfilled"
    /\ \A i \in 1..Len(calls) : ~Resolved(i)

\* C6: once the detail stage has run, every detail row of an indexed item
\* whose envelope does not open has left an entry with a null detail, no
\* promise of the stage was rejected, and this.dbPromise is not rejected.
C6_DetailFailureTolerated ==
  InTrace("resolveDetails") =>
    \A k \in 1..Len(itemDetails) :
      LET at == Find(keys, itemDetails[k].item_id)
      IN (at # 0 /\ decryptKeyData(keys[at].itemDataKeyPair, itemDetails[k].data,
                                   TRUE).kind # "ok") =>
           /\ \E d \in 1..Len(details) :
                /\ details[d].itemOverview.id = itemDetails[k].item_id
                /\ details[d].itemDetail.isNull
           /\ joined = ""
           /\ dbPromise.state # "rejected"

\* C7: after a successful unlock this.details holds exactly one entry per
\* row of the items query: the entry ids are the item ids, none twice.
\* Stated for the unlocks in which every item's envelopes opened, so that a
\* violation does not rest on an item dropped by the item stage.
C7_OneEntryPerItem ==
  (dbPromise.state = "fulfilled" /\ ~ItemStageFailed) =>
    /\ EntryIds = ItemIds
    /\ Len(details) = Len(items)

\* C8: once the item stage has run, every item whose overview opens is in
\* keys; with empty key data (a zero-length key_data, or key material of
\* length zero) its key pair is the overview key pair, and otherwise it is
\* the decrypted key material cut at byte 32, unhashed.
C8_ItemKeyPair ==
  InTrace("decryptItems") =>
    \A k \in 1..Len(items) :
      LET item == items[k]
          kd == decryptKeyData(masterDataKeyPair, item.key_data, FALSE)
          at == Find(keys, item.id)
      IN OpensOverview(item) =>
           /\ Len(item.key_data) = 0 =>
                at # 0 /\ keys[at].itemDataKeyPair = overviewDataKeyPair
           /\ (kd.kind = "ok" /\ Len(kd.value) = 0) =>
                at # 0 /\ keys[at].itemDataKeyPair = overviewDataKeyPair
           /\ (kd.kind = "ok" /\ Len(kd.value) > 0) =>
                /\ at # 0
                /\ keys[at].itemDataKeyPair =
                     << SubSeq(kd.value, 1, Min(KeyLen, Len(kd.value))),
                        SubSeq(kd.value, KeyLen + 1, Len(kd.value)) >>

\* C9: for an envelope long enough to hold the length field (16 bytes), the
\* checks of decryptKeyData decide in order: a wrong magic on a header
\* envelope gives the checksum error and neither HMAC nor decipher runs,
\* whatever the tag; else a tag that differs from the HMAC over all bytes
\* but the last 32 gives 'Invalid password' and the decipher does not run;
\* the decipher runs only when both checks passed.
C9_CheckOrder ==
  (codecOut.kind # "none" /\ Len(codecIn.data) >= HeaderLen) =>
    LET data == codecIn.data
        magicBad == codecIn.isOpdata01 /\ SubSeq(data, 1, 8) # Magic
        macBad == HmacSha256(codecIn.keypair[2], BufSlice(data, 0, -TagLen))
                    # BufSliceFrom(data, -TagLen)
    IN /\ magicBad =>
            /\ codecOut.kind = "err" /\ codecOut.msg = "Invalid OPData1 Checksum"
            /\ ~codecOut.hmacRun /\ ~codecOut.decipherRun
       /\ (~magicBad /\ macBad) =>
            /\ codecOut.kind = "err" /\ codecOut.msg = "Invalid password"
            /\ ~codecOut.decipherRun
       /\ codecOut.decipherRun => (~magicBad /\ ~macBad)
       /\ (~magicBad /\ ~macBad) => codecOut.kind \in {"ok", "throw"}

\* A header envelope with a wrong magic under a valid tag, answered with
\* the checksum error.
C9_Witness ==
  /\ codecIn.isOpdata01 /\ codecIn.tamper = "magic" /\ codecIn.rightKey
  /\ HmacSha256(codecIn.keypair[2], BufSlice(codecIn.data, 0, -TagLen))
       = BufSliceFrom(codecIn.data, -TagLen)
  /\ codecOut.msg = "Invalid OPData1 Checksum"

\* C10: an intact envelope whose padded plaintext fills whole blocks and
\* whose length field declares Len(plain), opened with the key pair it was
\* written under, yields exactly the plaintext.
C10_RoundTrip ==
  (/\ codecOut.kind # "none"
   /\ codecIn.tamper = "none" /\ codecIn.rightKey /\ codecIn.hiWord = NoHigh
   /\ (codecIn.padLen + Len(codecIn.plain)) % BlockLen = 0) =>
    codecOut.kind = "ok" /\ codecOut.value = codecIn.plain

\* The unsigned 64-bit little-endian value of bytes 8..15 as limbs:
\* low word + high word * 2^32.
Uint64LE(data) ==
  LET lo == ReadUInt32LE(data, 8)
      hi == ReadUInt32LE(data, 12)
  IN << lo[1], lo[2], hi[1], hi[2] >>

\* C11: whenever decryptKeyData hands back a plaintext, the length it
\* stripped the padding with is the full 64-bit value of bytes 8..15
\* (low word + high word * 2^32), and the plaintext is the deciphered buffer
\* cut to that length.
C11_Length64 ==
  codecOut.kind = "ok" =>
    LET data == codecIn.data
        offset == IF codecIn.isOpdata01 THEN HeaderLen ELSE 0
        whole == AesDecrypt(codecIn.keypair[1], BufSlice(data, offset, offset + IvLen),
                            BufSlice(data, offset + IvLen, -TagLen))
    IN /\ DeclaredLength(data) = Uint64LE(data)
       /\ codecOut.value = StripPadding(whole, Uint64LE(data))

PairOf32(pair) == Len(pair[1]) = KeyLen /\ Len(pair[2]) = KeyLen

\* C12: every key pair that exists (the password, master and overview key
\* pairs once set, and the itemDataKeyPair of every entry of keys and of
\* this.details) has an encryption key of 32 bytes and a MAC key of 32 bytes.
C12_KeyPairWidths ==
  /\ masterPasswordKeyPair # << >> => PairOf32(masterPasswordKeyPair)
  /\ masterDataKeyPair # << >> => PairOf32(masterDataKeyPair)
  /\ overviewDataKeyPair # << >> => PairOf32(overviewDataKeyPair)
  /\ \A k \in 1..Len(keys) : PairOf32(keys[k].itemDataKeyPair)
  /\ \A k \in 1..Len(details) : PairOf32(details[k].itemOverview.itemDataKeyPair)

\* The step at which the chain stopped: the last step that ran.
LastStep == trace[Len(trace)]

\* The error the failing step of the key hierarchy raised: the error of the
\* pbkdf2 callback, or the one decryptKeyData ends with for the wrapped key.
HierarchyError ==
  CASE LastStep = "pbkdf2" -> "pbkdf2 error"
    [] LastStep = "openMaster" ->
         decryptKeyData(masterPasswordKeyPair, profileData.master_key_data, TRUE).msg
    [] LastStep = "openOverview" ->
         decryptKeyData(masterPasswordKeyPair, profileData.overview_key_data, TRUE).msg
    [] OTHER -> ""

HierarchyFailed ==
  /\ pc = "settled" /\ dbPromise.state = "rejected"
  /\ LastStep \in {"pbkdf2", "openMaster", "openOverview"}

\* C13: when the chain stopped in the key hierarchy, every search that has
\* answered was rejected with exactly the error of the failing step, which
\* is never the empty rejection of a search without a match; and a search
\* rejected with the empty rejection ran on a fulfilled this.dbPromise.
C13_ErrorsUntranslated ==
  \A i \in 1..Len(calls) :
    ~Pending(i) =>
      /\ HierarchyFailed =>
           /\ Rejected(i)
           /\ calls[i].reason = HierarchyError
           /\ calls[i].reason # "undefined"
      /\ (Rejected(i) /\ calls[i].reason = "undefined") => dbPromise.state = "fulfilled"

\* A search rejected with 'Invalid password' after the master key envelope
\* refused the wrong password.
C13_Witness ==
  /\ masterPassword = BadPassword /\ HierarchyFailed /\ LastStep = "openMaster"
  /\ \E i \in 1..Len(calls) : Rejected(i) /\ calls[i].reason = "Invalid password"

\* A detail row whose item_id is the id of no entry of keys.
Unknown(row) == \A i \in 1..Len(keys) : keys[i].id # row.item_id
IsKnown(row) == ~Unknown(row)

\* C14: the detail rows that match no entry of keys leave no trace.  When
\* the detail stage returns, this.details and the outcome of Promise.all are
\* what the stage gives for the matching rows alone; and from then on no
\* entry of this.details carries the id of such a row, there are no more
\* entries than matching rows, every entry holds the entry of keys with its
\* id, and when no row matches this.details is empty and the stage does not
\* reject this.dbPromise.
C14_UnknownDetailSkipped ==
  LET matching == SelectSeq(itemDetails, IsKnown)
  IN /\ pc = "join" =>
          LET alone == DetailsLoop(matching, 1, keys, [details |-> << >>, rejected |-> ""])
          IN details = alone.details /\ joined = alone.rejected
     /\ InTrace("resolveDetails") =>
          /\ Len(details) <= Len(matching)
          /\ \A k \in 1..Len(itemDetails) :
               Unknown(itemDetails[k]) => itemDetails[k].item_id \notin EntryIds
          /\ \A d \in 1..Len(details) :
               details[d].itemOverview = keys[Find(keys, details[d].itemOverview.id)]
          /\ Len(matching) = 0 =>
               /\ details = << >> /\ joined = ""
               /\ InTrace("join") => dbPromise.state = "fulfilled"

\* A fulfilled unlock whose item_details rows held one row of an indexed
\* item and one row of an item that is not indexed.
C14_Witness ==
  /\ dbPromise.state = "fulfilled"
  /\ Len(details) = 1
  /\ Len(itemDetails) = 2
  /\ \E k \in 1..Len(itemDetails) : Unknown(itemDetails[k])

\* C15: when the item stage returns, keys is the final result of the loop
\* over every row of the items query, and the detail stage starts with
\* every item in keys or with an envelope that did not open; when the detail
\* stage returns, this.details is the final result of the loop over every
\* row; this.dbPromise is fulfilled, and a search resolves, only when the
\* item stage, the detail stage and the join have run and every row of an
\* indexed item has its entry.
C15_JoinBarrier ==
  /\ pc = "queryDetails" =>
       keys = ItemsLoop(items, 1, overviewDataKeyPair, masterDataKeyPair,
                        [keys |-> << >>, dropped |-> 0, thrown |-> ""]).keys
  /\ InTrace("resolveDetails") => InTrace("decryptItems")
  /\ pc = "resolveDetails" =>
       \A k \in 1..Len(items) :
         \/ Find(keys, items[k].id) # 0
         \/ ~OpensOverview(items[k])
         \/ ~OpensKey(items[k])
  /\ pc = "join" =>
       details = DetailsLoop(itemDetails, 1, keys,
                             [details |-> << >>, rejected |-> ""]).details
  /\ dbPromise.state = "fulfilled" =>
       /\ InTrace("decryptItems") /\ InTrace("resolveDetails") /\ InTrace("join")
       /\ joined = ""
       /\ \A k \in 1..Len(itemDetails) :
            IsKnown(itemDetails[k]) => itemDetails[k].item_id \in EntryIds
  /\ \A i \in 1..Len(calls) : Resolved(i) => dbPromise.state = "fulfilled"

\* A search called before this.dbPromise settled, resolved after two items
\* and two detail rows went through both stages.
C15_Witness ==
  /\ Len(keys) = 2 /\ Len(details) = 2
  /\ \E i \in 1..Len(calls) : Resolved(i) /\ calls[i].early

\* The steps of the constructor's chain in the order of the source.
PhaseOrder ==
  << "getProfile", "pbkdf2", "openMaster", "makeMaster", "openOverview",
     "makeOverview", "queryItems", "decryptItems", "queryDetails",
     "resolveDetails", "join" >>

\* C16: the steps that have run are an initial part of the order profile
\* fetch, key derivation, master key, overview key, items query and item
\* stage, details query and detail stage, join; each step has what the
\* previous one produces; a rejected chain has stopped; and once an item's
\* envelope did not open in the item stage neither the item_details query
\* nor the detail stage is started.
C16_StrictPhases ==
  /\ Len(trace) <= Len(PhaseOrder)
  /\ \A i \in 1..Len(trace) : trace[i] = PhaseOrder[i]
  /\ InTrace("pbkdf2") => profileData.present
  /\ InTrace("openMaster") => masterPasswordKeyPair # << >>
  /\ InTrace("openOverview") => masterDataKeyPair # << >>
  /\ InTrace("queryItems") => overviewDataKeyPair # << >>
  /\ InTrace("resolveDetails") => InTrace("decryptItems")
  /\ dbPromise.state = "rejected" => pc = "settled"
  /\ ItemStageFailed => (~InTrace("queryDetails") /\ ~InTrace("resolveDetails"))

\* C17: once the chain has settled, fulfilled or rejected, the database
\* handle the constructor opened is no longer open.
C17_HandleReleased ==
  pc = "settled" => db # "open"

\* Two answered searches for the same title have the same outcome.
SameAnswers ==
  \A i, j \in 1..Len(calls) :
    (~Pending(i) /\ ~Pending(j) /\ calls[i].title = calls[j].title) =>
      /\ calls[i].state = calls[j].state
      /\ calls[i].value = calls[j].value

\* C18: no step of a search (the call, or its handler answering) changes
\* this.details or keys, nothing changes them once the chain has settled,
\* and any two answered searches for the same title were given the same
\* entries.
C18_IndexReadOnly ==
  /\ []SameAnswers
  /\ [][(calls' # calls \/ pc = "settled") => (details' = details /\ keys' = keys)]_vars

\* Two searches called after a fulfilled unlock, both resolved with the
\* same entry.
C18_Witness ==
  /\ dbPromise.state = "fulfilled"
  /\ Len(calls) = 2
  /\ ~calls[1].early /\ ~calls[2].early
  /\ Resolved(1) /\ Resolved(2)
  /\ calls[1].value = calls[2].value /\ Len(calls[1].value) > 0

\* db.get has called back without an error and without a row.
MissingProfile ==
  /\ pc # "getProfile"
  /\ ~profileData.present
  /\ dbPromise.reason # "SQLITE_ERROR"

\* C19: when db.get delivers no row and no error, no step after the profile
\* fetch ever runs (no pbkdf2, no envelope opened, no query), no key pair is
\* set, keys and this.details stay empty, this.dbPromise ends rejected (with
\* the TypeError of reading a field of the missing row) and every search
\* that has answered was rejected with that reason.
C19_MissingProfileFails ==
  MissingProfile =>
    /\ pc \in {"derive", "settled"}
    /\ trace = << "getProfile" >>
    /\ masterPasswordKeyPair = << >>
    /\ masterDataKeyPair = << >>
    /\ overviewDataKeyPair = << >>
    /\ keys = << >> /\ details = << >>
    /\ dbPromise.state # "fulfilled"
    /\ pc = "settled" => dbPromise = [state |-> "rejected", reason |-> "TypeError"]
    /\ \A i \in 1..Len(calls) :
         ~Pending(i) => (Rejected(i) /\ calls[i].reason = "TypeError")

\* A search called before and one called after the failed unlock of a vault
\* without the profile, both rejected.
C19_Witness ==
  /\ MissingProfile /\ pc = "settled"
  /\ Len(calls) = 2
  /\ calls[1].early /\ ~calls[2].early
  /\ Rejected(1) /\ Rejected(2)

\* No step of the chain appears twice in the history.
NoStepTwice ==
  \A i, j \in 1..Len(trace) : i # j => trace[i] # trace[j]

\* C20: no step of the chain runs twice; a step of a search (the call or
\* its handler) runs no step of the chain and leaves its position and
\* this.dbPromise alone; and once this.dbPromise has settled, its state and
\* reason, the position of the chain, the history and the key pairs never
\* change again.
C20_RunsOnce ==
  /\ []NoStepTwice
  /\ [][calls' # calls => (trace' = trace /\ pc' = pc /\ dbPromise' = dbPromise)]_vars
  /\ [][dbPromise.state # "pending" =>
          /\ dbPromise' = dbPromise /\ pc' = pc /\ trace' = trace
          /\ masterPasswordKeyPair' = masterPasswordKeyPair
          /\ masterDataKeyPair' = masterDataKeyPair
          /\ overviewDataKeyPair' = overviewDataKeyPair
          /\ keys' = keys /\ details' = details]_vars

\* The wrong password was refused once, and a search called before and one
\* called after that were both rejected.
C20_Witness ==
  /\ dbPromise = [state |-> "rejected", reason |-> "Invalid password"]
  /\ Len(calls) = 2
  /\ calls[1].early /\ ~calls[2].early
  /\ Rejected(1) /\ Rejected(2)
  /\ trace = << "getProfile", "pbkdf2", "openMaster" >>

====
